---- MODULE Spec2Model ----
(***************************************************************************)
(* Two SPI-attached MIPI DBI panel drivers:                                *)
(*   - panel-ilitek-ili9806e.c (ILI9806E, a drm_panel driver)              *)
(*   - the Sitronix ST7789V tiny DRM driver                                *)
(* Each handler of the drivers is an action (or, where it talks to the     *)
(* bus, a run of steps, one per statement).  The kernel services the       *)
(* drivers call (devm, mipi_dbi, drm) are not part of the drivers; their   *)
(* results are inputs drawn from small sets, and the controller at the     *)
(* other end of the bus is a small register-page machine.                  *)
(***************************************************************************)
EXTENDS Integers, Sequences, FiniteSets, TLC

VARIABLES
    \* ---- ILI9806E ----
    probe_in,       \* results the kernel services gave the last ili9806e_probe
    ret,            \* return value of the ILI9806E handler that returned last
    last,           \* its name ("none" at the start and while a bus handler runs)
    bound,          \* driver core: probe returned 0 and remove has not run
    panel_added,    \* ctx->panel is on the DRM panel list
    prepared,       \* drm_panel: prepare ran more recently than unprepare
    suspended,      \* PM core: between suspend and resume
    op,             \* ILI9806E handler running on the bus ("idle" if none)
    pc,             \* index of its next statement in the handler's script
    log,            \* statements executed by the current / last bus handler
    bus_failed,     \* some mipi_dbi_command of that handler returned an error
    reset_gpio,     \* logical value of ctx->dbi.reset
    ctrl,           \* ILI9806E controller: page, sleep_out, display_on, tear_on
    connector,      \* drm_connector: probed_modes, display_info
    pre_suspend,    \* the controller's state when the suspend of the current
                    \* suspend/resume cycle was called
    first_op,       \* the first bus handler called since the last probe
                    \* ("none" before any)
    \* ---- ST7789V ----
    st_in,          \* results the kernel services gave the last st7789v_probe
    st_ret,         \* return value of the last st7789v_probe
    st,             \* ST7789V device: bound, registered, unplugged, rotation, ...
    st_run          \* the current / last run of st7789v_pipe_enable

ili_vars == <<probe_in, ret, last, bound, panel_added, prepared, suspended, op, pc,
              log, bus_failed, reset_gpio, ctrl, connector, pre_suspend, first_op>>
st_vars == <<st_in, st_ret, st, st_run>>
vars == <<ili_vars, st_vars>>

(***************************************************************************)
(* Bounds of the model.                                                    *)
(***************************************************************************)
\* ili9806e_get_modes is called while the connector holds fewer modes than this
MaxModes == 2
\* st7789v_pipe_enable is run at most this many times
MaxEnables == 2

(***************************************************************************)
(* Error numbers (negative status codes).                                  *)
(***************************************************************************)
ENOMEM == 12
\* the negative status code a failing kernel service hands back (-ENODEV)
Errnos == {-19}
\* what a kernel service returning an int hands back: 0 or a negative errno
Results == {0} \cup Errnos

(***************************************************************************)
(* panel-ilitek-ili9806e.c: registers and DCS commands                     *)
(***************************************************************************)
ILI9806E_BUS_FORMAT == "MEDIA_BUS_FMT_RGB666_1X18"

\* Page 1 registers
ILI9806E_P1_IFMODE1 == \h08
IFMODE1_SDO_STATUS == 16  \* BIT(4)
ILI9806E_P1_DISCTRL2 == \h21
DISCTRL2_EPL == 1  \* BIT(0)
ILI9806E_P1_RESCTRL == \h30
RESCTRL_480x800 == \h2
ILI9806E_P1_INVTR == \h31
INVTR_NLA_COLUMN == \h0
ILI9806E_P1_PWCTRL1 == \h40
ILI9806E_P1_PWCTRL2 == \h41
ILI9806E_P1_PWCTRL3 == \h42
ILI9806E_P1_PWCTRL4 == \h43
ILI9806E_P1_PWCTRL5 == \h44
ILI9806E_P1_PWCTRL9 == \h50
ILI9806E_P1_PWCTRL10 == \h51
ILI9806E_P1_VMCTRL1 == \h52
ILI9806E_P1_VMCTRL2 == \h53
ILI9806E_P1_SRCTADJ1 == \h60
ILI9806E_P1_SRCTADJ2 == \h61
ILI9806E_P1_SRCTADJ3 == \h62
ILI9806E_P1_SRCTADJ4 == \h63
ILI9806E_P1_P_GAMMA(n) == \ha0 + n - 1
ILI9806E_P1_N_GAMMA(n) == \hc0 + n - 1

\* Page 7 registers
ILI9806E_P7_VGLREGEN == \h17
ILI9806E_P7_0x02 == \h02
ILI9806E_P7_0xe1 == \he1

\* The page-switching register (valid for all pages)
ILI9806E_Px_ENEXTC == \hff

\* include/video/mipi_display.h
MIPI_DCS_ENTER_SLEEP_MODE == \h10
MIPI_DCS_EXIT_SLEEP_MODE == \h11
MIPI_DCS_ENTER_NORMAL_MODE == \h13
MIPI_DCS_SET_DISPLAY_OFF == \h28
MIPI_DCS_SET_DISPLAY_ON == \h29
MIPI_DCS_SET_TEAR_ON == \h35
MIPI_DCS_SET_ADDRESS_MODE == \h36
MIPI_DCS_SET_PIXEL_FORMAT == \h3a

nds040480800_v3_mode ==
    [ width_mm    |-> 51,
      height_mm   |-> 85,
      clock       |-> 30000,
      hdisplay    |-> 480,
      hsync_start |-> 480 + 25,
      hsync_end   |-> 480 + 25 + 54,
      htotal      |-> 480 + 25 + 54 + 25,
      vdisplay    |-> 800,
      vsync_start |-> 800 + 25,
      vsync_end   |-> 800 + 25 + 14,
      vtotal      |-> 800 + 25 + 14 + 22,
      flags       |-> {"DRM_MODE_FLAG_NHSYNC", "DRM_MODE_FLAG_NVSYNC"},
      type        |-> {"DRM_MODE_TYPE_PREFERRED", "DRM_MODE_TYPE_DRIVER"},
      name        |-> "" ]

(***************************************************************************)
(* Statements of a bus handler.  k is the kind of statement as the source  *)
(* writes it: "gpio" (gpiod_set_value, c the value), "delay" (usleep_range *)
(* or msleep, c the least delay in microseconds), "page"                   *)
(* (ili9806e_switch_page), "vendor" (a write to a vendor register) and     *)
(* "dcs" (a MIPI_DCS_* command); c is the command byte put on the bus and  *)
(* p its parameter bytes.                                                  *)
(***************************************************************************)
Gpio(v) == [k |-> "gpio", c |-> v, p |-> <<>>]
Delay(us) == [k |-> "delay", c |-> us, p |-> <<>>]
Vendor(rv) == [k |-> "vendor", c |-> rv[1], p |-> <<rv[2]>>]
Dcs(cmd, par) == [k |-> "dcs", c |-> cmd, p |-> par]
\* the statements that put a command on the bus
IsCmd(e) == e.k \in {"page", "vendor", "dcs"}

ili9806e_switch_page(page) ==
    [k |-> "page", c |-> ILI9806E_Px_ENEXTC, p |-> <<\hff, \h98, \h06, \h04, page>>]

Map(f(_), s) == [i \in 1..Len(s) |-> f(s[i])]

ili9806e_page1_init ==
  <<
     <<ILI9806E_P1_IFMODE1, IFMODE1_SDO_STATUS>>, <<ILI9806E_P1_DISCTRL2, DISCTRL2_EPL>>, <<ILI9806E_P1_RESCTRL, RESCTRL_480x800>>,
     <<ILI9806E_P1_INVTR, INVTR_NLA_COLUMN>>, <<ILI9806E_P1_PWCTRL1, \h10>>, <<ILI9806E_P1_PWCTRL2, \h55>>,
     <<ILI9806E_P1_PWCTRL3, \h02>>, <<ILI9806E_P1_PWCTRL4, \h09>>, <<ILI9806E_P1_PWCTRL5, \h07>>,
     <<ILI9806E_P1_PWCTRL9, \h78>>, <<ILI9806E_P1_PWCTRL10, \h78>>, <<ILI9806E_P1_VMCTRL1, \h00>>,
     <<ILI9806E_P1_VMCTRL2, \h6d>>, <<ILI9806E_P1_SRCTADJ1, \h07>>, <<ILI9806E_P1_SRCTADJ2, \h00>>,
     <<ILI9806E_P1_SRCTADJ3, \h08>>, <<ILI9806E_P1_SRCTADJ4, \h00>>, <<ILI9806E_P1_P_GAMMA(1), \h00>>,
     <<ILI9806E_P1_P_GAMMA(2), \h07>>, <<ILI9806E_P1_P_GAMMA(3), \h0c>>, <<ILI9806E_P1_P_GAMMA(4), \h0b>>,
     <<ILI9806E_P1_P_GAMMA(5), \h03>>, <<ILI9806E_P1_P_GAMMA(6), \h07>>, <<ILI9806E_P1_P_GAMMA(7), \h06>>,
     <<ILI9806E_P1_P_GAMMA(8), \h04>>, <<ILI9806E_P1_P_GAMMA(9), \h08>>, <<ILI9806E_P1_P_GAMMA(10), \h0c>>,
     <<ILI9806E_P1_P_GAMMA(11), \h13>>, <<ILI9806E_P1_P_GAMMA(12), \h06>>, <<ILI9806E_P1_P_GAMMA(13), \h0d>>,
     <<ILI9806E_P1_P_GAMMA(14), \h19>>, <<ILI9806E_P1_P_GAMMA(15), \h10>>, <<ILI9806E_P1_P_GAMMA(16), \h00>>,
     <<ILI9806E_P1_N_GAMMA(1), \h00>>, <<ILI9806E_P1_N_GAMMA(2), \h07>>, <<ILI9806E_P1_N_GAMMA(3), \h0c>>,
     <<ILI9806E_P1_N_GAMMA(4), \h0b>>, <<ILI9806E_P1_N_GAMMA(5), \h03>>, <<ILI9806E_P1_N_GAMMA(6), \h07>>,
     <<ILI9806E_P1_N_GAMMA(7), \h07>>, <<ILI9806E_P1_N_GAMMA(8), \h04>>, <<ILI9806E_P1_N_GAMMA(9), \h08>>,
     <<ILI9806E_P1_N_GAMMA(10), \h0c>>, <<ILI9806E_P1_N_GAMMA(11), \h13>>, <<ILI9806E_P1_N_GAMMA(12), \h06>>,
     <<ILI9806E_P1_N_GAMMA(13), \h0d>>, <<ILI9806E_P1_N_GAMMA(14), \h18>>, <<ILI9806E_P1_N_GAMMA(15), \h10>>,
     <<ILI9806E_P1_N_GAMMA(16), \h00>>
  >>

ili9806e_page6_init ==
  <<
     <<\h00, \h20>>, <<\h01, \h0a>>, <<\h02, \h00>>,
     <<\h03, \h00>>, <<\h04, \h01>>, <<\h05, \h01>>,
     <<\h06, \h98>>, <<\h07, \h06>>, <<\h08, \h01>>,
     <<\h09, \h80>>, <<\h0a, \h00>>, <<\h0b, \h00>>,
     <<\h0c, \h01>>, <<\h0d, \h01>>, <<\h0e, \h00>>,
     <<\h0f, \h00>>, <<\h10, \hf0>>, <<\h11, \hf4>>,
     <<\h12, \h01>>, <<\h13, \h00>>, <<\h14, \h00>>,
     <<\h15, \hc0>>, <<\h16, \h08>>, <<\h17, \h00>>,
     <<\h18, \h00>>, <<\h19, \h00>>, <<\h1a, \h00>>,
     <<\h1b, \h00>>, <<\h1c, \h00>>, <<\h1d, \h00>>,
     <<\h20, \h01>>, <<\h21, \h23>>, <<\h22, \h45>>,
     <<\h23, \h67>>, <<\h24, \h01>>, <<\h25, \h23>>,
     <<\h26, \h45>>, <<\h27, \h67>>, <<\h30, \h11>>,
     <<\h31, \h11>>, <<\h32, \h00>>, <<\h33, \hee>>,
     <<\h34, \hff>>, <<\h35, \hbb>>, <<\h36, \haa>>,
     <<\h37, \hdd>>, <<\h38, \hcc>>, <<\h39, \h66>>,
     <<\h3a, \h77>>, <<\h3b, \h22>>, <<\h3c, \h22>>,
     <<\h3d, \h22>>, <<\h3e, \h22>>, <<\h3f, \h22>>,
     <<\h40, \h22>>, <<\h52, \h10>>, <<\h53, \h10>>
  >>

ili9806e_page7_init ==
  <<
     <<ILI9806E_P7_VGLREGEN, \h22>>, <<ILI9806E_P7_0x02, \h77>>, <<ILI9806E_P7_0xe1, \h79>>
  >>

\* Faulty variant: SET_DISPLAY_ON is sent right after EXIT_SLEEP_MODE, before the delay.
ili9806e_prepare_script_on_early ==
    <<Gpio(1), Delay(15), Gpio(0), Delay(125000)>>
    \o <<ili9806e_switch_page(1)>> \o Map(Vendor, ili9806e_page1_init)
    \o <<ili9806e_switch_page(6)>> \o Map(Vendor, ili9806e_page6_init)
    \o <<ili9806e_switch_page(7)>> \o Map(Vendor, ili9806e_page7_init)
    \o <<ili9806e_switch_page(0),
         Dcs(MIPI_DCS_SET_TEAR_ON, <<>>),
         Dcs(MIPI_DCS_EXIT_SLEEP_MODE, <<>>),
         Dcs(MIPI_DCS_SET_DISPLAY_ON, <<>>),
         Delay(120000)>>

ili9806e_prepare_script ==
    <<Gpio(1), Delay(15), Gpio(0), Delay(125000)>>
    \o <<ili9806e_switch_page(1)>> \o Map(Vendor, ili9806e_page1_init)
    \o <<ili9806e_switch_page(6)>> \o Map(Vendor, ili9806e_page6_init)
    \o <<ili9806e_switch_page(7)>> \o Map(Vendor, ili9806e_page7_init)
    \o <<ili9806e_switch_page(0),
         Dcs(MIPI_DCS_SET_TEAR_ON, <<>>),
         Dcs(MIPI_DCS_EXIT_SLEEP_MODE, <<>>),
         Delay(120000),
         Dcs(MIPI_DCS_SET_DISPLAY_ON, <<>>)>>

ili9806e_unprepare_script ==
    <<Dcs(MIPI_DCS_SET_DISPLAY_OFF, <<\h00>>),
      Dcs(MIPI_DCS_ENTER_SLEEP_MODE, <<\h00>>)>>

ili9806e_suspend_script ==
    <<Dcs(MIPI_DCS_SET_DISPLAY_OFF, <<\h00>>),
      Dcs(MIPI_DCS_ENTER_SLEEP_MODE, <<\h00>>)>>

ili9806e_resume_script ==
    <<Dcs(MIPI_DCS_EXIT_SLEEP_MODE, <<\h00>>),
      Delay(120000),
      Dcs(MIPI_DCS_SET_DISPLAY_ON, <<\h00>>)>>

BusOps == {"prepare", "unprepare", "suspend", "resume"}

Script(o) ==
    CASE o = "prepare"   -> ili9806e_prepare_script
      [] o = "unprepare" -> ili9806e_unprepare_script
      [] o = "suspend"   -> ili9806e_suspend_script
      [] o = "resume"    -> ili9806e_resume_script

\* The value each bus handler returns; f tells whether one of its
\* mipi_dbi_command calls returned an error.
ili9806e_prepare_ret(f) == 0
ili9806e_unprepare_ret(f) == 0
ili9806e_suspend_ret(f) == 0
ili9806e_resume_ret(f) == 0

HandlerRet(o, f) ==
    CASE o = "prepare"   -> ili9806e_prepare_ret(f)
      [] o = "unprepare" -> ili9806e_unprepare_ret(f)
      [] o = "suspend"   -> ili9806e_suspend_ret(f)
      [] o = "resume"    -> ili9806e_resume_ret(f)

(***************************************************************************)
(* The ILI9806E at the other end of the bus.  A hardware reset puts it on  *)
(* page 0, in sleep mode, display off.  The page register is valid on all  *)
(* pages; the DCS commands are the page 0 commands; on the other pages the *)
(* same bytes address vendor registers, which have no effect on the power  *)
(* state.                                                                  *)
(***************************************************************************)
ili9806e_hw_reset ==
    [page |-> 0, sleep_out |-> FALSE, display_on |-> FALSE, tear_on |-> FALSE]

ili9806e_hw_command(hw, s) ==
    IF s.c = ILI9806E_Px_ENEXTC /\ Len(s.p) = 5
    THEN [hw EXCEPT !.page = s.p[5]]
    ELSE IF hw.page # 0 THEN hw
    ELSE CASE s.c = MIPI_DCS_EXIT_SLEEP_MODE  -> [hw EXCEPT !.sleep_out = TRUE]
           [] s.c = MIPI_DCS_ENTER_SLEEP_MODE -> [hw EXCEPT !.sleep_out = FALSE]
           [] s.c = MIPI_DCS_SET_DISPLAY_ON   -> [hw EXCEPT !.display_on = TRUE]
           [] s.c = MIPI_DCS_SET_DISPLAY_OFF  -> [hw EXCEPT !.display_on = FALSE]
           [] s.c = MIPI_DCS_SET_TEAR_ON      -> [hw EXCEPT !.tear_on = TRUE]
           [] OTHER -> hw

(***************************************************************************)
(* ili9806e_probe                                                          *)
(***************************************************************************)
\* what devm_kzalloc, devm_gpiod_get, drm_panel_of_backlight and
\* mipi_dbi_spi_init can hand to one probe
ProbeInputs ==
    [alloc : BOOLEAN, reset : Results, backlight : Results, spi_init : Results]

\* Faulty variant: the result of drm_panel_of_backlight is not checked.
ili9806e_probe_path_backlight_unchecked(in) ==
    IF ~in.alloc THEN [ret |-> -ENOMEM, added |-> FALSE]
    ELSE IF in.reset # 0 THEN [ret |-> in.reset, added |-> FALSE]
    ELSE IF in.spi_init # 0 THEN [ret |-> in.spi_init, added |-> FALSE]
    ELSE [ret |-> 0, added |-> TRUE]

\* Faulty variant: drm_panel_add is called before mipi_dbi_spi_init.
ili9806e_probe_path_add_early(in) ==
    IF ~in.alloc THEN [ret |-> -ENOMEM, added |-> FALSE]
    ELSE IF in.reset # 0 THEN [ret |-> in.reset, added |-> FALSE]
    ELSE IF in.backlight # 0 THEN [ret |-> in.backlight, added |-> FALSE]
    ELSE IF in.spi_init # 0 THEN [ret |-> in.spi_init, added |-> TRUE]
    ELSE [ret |-> 0, added |-> TRUE]

\* the path ili9806e_probe takes on these results: its return value and
\* whether it reached drm_panel_add
ili9806e_probe_path(in) ==
    IF ~in.alloc THEN [ret |-> -ENOMEM, added |-> FALSE]
    ELSE IF in.reset # 0 THEN [ret |-> in.reset, added |-> FALSE]
    ELSE IF in.backlight # 0 THEN [ret |-> in.backlight, added |-> FALSE]
    ELSE IF in.spi_init # 0 THEN [ret |-> in.spi_init, added |-> FALSE]
    ELSE [ret |-> 0, added |-> TRUE]

ili9806e_probe ==
    /\ op = "idle" /\ ~bound
    /\ \E in \in ProbeInputs :
         LET r == ili9806e_probe_path(in) IN
         /\ probe_in' = in
         /\ ret' = r.ret
         /\ panel_added' = r.added
         /\ bound' = (r.ret = 0)
         \* drm_panel_init on the fresh control block
         /\ prepared' = IF in.alloc THEN FALSE ELSE prepared
         \* devm_gpiod_get(dev, "reset", GPIOD_OUT_LOW)
         /\ reset_gpio' = IF in.alloc /\ in.reset = 0 THEN 0 ELSE reset_gpio
    /\ last' = "probe"
    /\ first_op' = "none"
    /\ UNCHANGED <<suspended, op, pc, log, bus_failed, ctrl, connector, pre_suspend,
                   st_vars>>

ili9806e_remove ==
    /\ op = "idle" /\ bound /\ ~suspended
    /\ panel_added' = FALSE
    /\ bound' = FALSE
    /\ last' = "remove"
    /\ UNCHANGED <<probe_in, ret, prepared, suspended, op, pc, log, bus_failed,
                   reset_gpio, ctrl, connector, pre_suspend,
                   first_op, st_vars>>

(***************************************************************************)
(* ili9806e_get_modes                                                      *)
(***************************************************************************)
drm_mode_set_name(mode) ==
    [mode EXCEPT !.name = ToString(mode.hdisplay) \o "x" \o ToString(mode.vdisplay)]

\* Faulty variant: display_info is filled in from the constant mode before the copy
\* is checked.
ili9806e_get_modes_path_info_first(conn, dup_ok) ==
    LET mode == drm_mode_set_name(nds040480800_v3_mode)
        info == [width_mm |-> mode.width_mm, height_mm |-> mode.height_mm,
                 bus_formats |-> <<ILI9806E_BUS_FORMAT>>] IN
    IF ~dup_ok THEN [ret |-> -ENOMEM, connector |-> [conn EXCEPT !.display_info = info]]
    ELSE [ret |-> 1,
          connector |-> [probed_modes |-> Append(conn.probed_modes, mode),
                         display_info |-> info]]

ili9806e_get_modes_path(conn, dup_ok) ==
    IF ~dup_ok THEN [ret |-> -ENOMEM, connector |-> conn]
    ELSE LET mode == drm_mode_set_name(nds040480800_v3_mode) IN
         [ret |-> 1,
          connector |->
            [probed_modes |-> Append(conn.probed_modes, mode),
             display_info |-> [width_mm |-> mode.width_mm,
                               height_mm |-> mode.height_mm,
                               bus_formats |-> <<ILI9806E_BUS_FORMAT>>]]]

ili9806e_get_modes ==
    /\ op = "idle" /\ bound
    /\ Len(connector.probed_modes) < MaxModes
    /\ \E dup_ok \in BOOLEAN :
         LET r == ili9806e_get_modes_path(connector, dup_ok) IN
         /\ ret' = r.ret
         /\ connector' = r.connector
    /\ last' = "get_modes"
    /\ UNCHANGED <<probe_in, bound, panel_added, prepared, suspended, op, pc, log,
                   bus_failed, reset_gpio, ctrl, pre_suspend,
                   first_op, st_vars>>

(***************************************************************************)
(* The handlers that talk to the bus: prepare, unprepare, suspend, resume. *)
(* A call starts the handler's script; each statement is one step; after   *)
(* the last statement the handler returns.                                 *)
(***************************************************************************)
Call(o) ==
    /\ op = "idle" /\ bound
    /\ op' = o
    /\ pc' = 1
    /\ log' = <<>>
    /\ bus_failed' = FALSE
    /\ ret' = 0
    /\ last' = "none"
    /\ pre_suspend' = CASE o = "suspend" -> ctrl
                        [] o = "resume" -> pre_suspend
                        [] OTHER -> ili9806e_hw_reset
    /\ first_op' = IF first_op = "none" THEN o ELSE first_op
    /\ UNCHANGED <<probe_in, bound, panel_added, prepared, suspended,
                   reset_gpio, ctrl, connector, st_vars>>

ili9806e_prepare == ~suspended /\ Call("prepare")
ili9806e_unprepare == ~suspended /\ Call("unprepare")
ili9806e_suspend == ~suspended /\ Call("suspend")
ili9806e_resume == suspended /\ Call("resume")

Running == op \in BusOps /\ pc <= Len(Script(op))

gpiod_set_value ==
    /\ Running /\ Script(op)[pc].k = "gpio"
    /\ reset_gpio' = Script(op)[pc].c
    /\ ctrl' = IF Script(op)[pc].c = 1 THEN ili9806e_hw_reset ELSE ctrl
    /\ log' = Append(log, Script(op)[pc])
    /\ pc' = pc + 1
    /\ UNCHANGED <<probe_in, ret, last, bound, panel_added, prepared, suspended, op,
                   bus_failed, connector, pre_suspend,
                   first_op, st_vars>>

msleep ==
    /\ Running /\ Script(op)[pc].k = "delay"
    /\ log' = Append(log, Script(op)[pc])
    /\ pc' = pc + 1
    /\ UNCHANGED <<probe_in, ret, last, bound, panel_added, prepared, suspended, op,
                   bus_failed, reset_gpio, ctrl, connector, pre_suspend,
                   first_op, st_vars>>

\* mipi_dbi_command returns 0 and the controller has the command, or it
\* returns an error and the command is lost; the handlers drop the value.
mipi_dbi_command ==
    /\ Running /\ IsCmd(Script(op)[pc])
    /\ \/ /\ ctrl' = ili9806e_hw_command(ctrl, Script(op)[pc])
          /\ bus_failed' = bus_failed
       \/ /\ ctrl' = ctrl
          /\ bus_failed' = TRUE
    /\ log' = Append(log, Script(op)[pc])
    /\ pc' = pc + 1
    /\ UNCHANGED <<probe_in, ret, last, bound, panel_added, prepared, suspended, op,
                   reset_gpio, connector, pre_suspend,
                   first_op, st_vars>>

Return ==
    /\ op \in BusOps /\ pc > Len(Script(op))
    /\ ret' = HandlerRet(op, bus_failed)
    /\ last' = op
    /\ op' = "idle"
    /\ prepared' = CASE op = "prepare" -> (ret' = 0)
                     [] op = "unprepare" -> IF ret' = 0 THEN FALSE ELSE prepared
                     [] OTHER -> prepared
    /\ suspended' = CASE op = "suspend" -> (ret' = 0)
                      [] op = "resume" -> IF ret' = 0 THEN FALSE ELSE suspended
                      [] OTHER -> suspended
    /\ UNCHANGED <<probe_in, bound, panel_added, pc, log, bus_failed, reset_gpio,
                   ctrl, connector, pre_suspend,
                   first_op, st_vars>>

(***************************************************************************)
(* The Sitronix ST7789V driver                                             *)
(***************************************************************************)
ST7789V_MY == 128
ST7789V_MX == 64
ST7789V_MV == 32
ST7789V_RGB == 8

\* bitwise OR of two bytes
RECURSIVE BitOr(_, _)
BitOr(a, b) ==
    IF a = 0 THEN b
    ELSE IF b = 0 THEN a
    ELSE 2 * BitOr(a \div 2, b \div 2) + (IF a % 2 = 1 \/ b % 2 = 1 THEN 1 ELSE 0)

\* Faulty variant: the line "addr_mode |= ST7789V_RGB" is not commented out.
st7789v_addr_mode_bgr(rotation) ==
    BitOr(CASE rotation = 90  -> BitOr(ST7789V_MX, ST7789V_MV)
            [] rotation = 180 -> BitOr(ST7789V_MX, ST7789V_MY)
            [] rotation = 270 -> BitOr(ST7789V_MY, ST7789V_MV)
            [] OTHER -> 0,
          ST7789V_RGB)

\* the switch on dbidev->rotation
st7789v_addr_mode(rotation) ==
    CASE rotation = 90  -> BitOr(ST7789V_MX, ST7789V_MV)
      [] rotation = 180 -> BitOr(ST7789V_MX, ST7789V_MY)
      [] rotation = 270 -> BitOr(ST7789V_MY, ST7789V_MV)
      [] OTHER -> 0

\* the statements of st7789v_pipe_enable from "init seq begin" to "init seq end"
st7789v_init_seq(rotation) ==
    <<Dcs(MIPI_DCS_SET_PIXEL_FORMAT, <<\h05>>),
      Dcs(\hB2, <<\h0C, \h0C, \h00, \h33, \h33>>),
      Dcs(\hB7, <<\h35>>),
      Dcs(\hBB, <<\h19>>),
      Dcs(\hC0, <<\h2C>>),
      Dcs(\hC2, <<\h01>>),
      Dcs(\hC3, <<\h12>>),
      Dcs(\hC4, <<\h20>>),
      Dcs(\hC6, <<\h0F>>),
      Dcs(\hD0, <<\hA4, \hA1>>),
      Dcs(\hE0, <<\hD0, \h04, \h0D, \h11, \h13, \h2B, \h3F,
                  \h54, \h4C, \h18, \h0D, \h0B, \h1F, \h23>>),
      Dcs(\hE1, <<\hD0, \h04, \h0C, \h11, \h13, \h2C, \h3F,
                  \h44, \h51, \h2F, \h1F, \h1F, \h20, \h23>>),
      Dcs(MIPI_DCS_ENTER_NORMAL_MODE, <<>>),
      Dcs(MIPI_DCS_SET_ADDRESS_MODE, <<st7789v_addr_mode(rotation)>>),
      Dcs(MIPI_DCS_EXIT_SLEEP_MODE, <<>>),
      Dcs(MIPI_DCS_SET_DISPLAY_ON, <<>>),
      Delay(20000)>>

\* the rotation property of the device tree; mipi_dbi_dev_init is an input
\* of the probe here, so every value can reach st7789v_pipe_enable
Rotations == {0, 45, 90, 180, 270}

\* what devm_drm_dev_alloc, devm_gpiod_get_optional (reset, dc),
\* devm_of_find_backlight, mipi_dbi_spi_init, mipi_dbi_dev_init and
\* drm_dev_register can hand to one probe (0: no error), and the rotation
StProbeInputs ==
    [alloc : Results, reset : Results, dc : Results, backlight : Results,
     spi_init : Results, dev_init : Results, register : Results,
     rotation : Rotations]

\* the path st7789v_probe takes on these results: its return value and
\* whether the DRM device is registered when it returns
st7789v_probe_path(in) ==
    IF in.alloc # 0 THEN [ret |-> in.alloc, registered |-> FALSE]
    ELSE IF in.reset # 0 THEN [ret |-> in.reset, registered |-> FALSE]
    ELSE IF in.dc # 0 THEN [ret |-> in.dc, registered |-> FALSE]
    \* dbidev->backlight = devm_of_find_backlight(dev): the check is commented out
    ELSE IF in.spi_init # 0 THEN [ret |-> in.spi_init, registered |-> FALSE]
    ELSE IF in.dev_init # 0 THEN [ret |-> in.dev_init, registered |-> FALSE]
    ELSE IF in.register # 0 THEN [ret |-> in.register, registered |-> FALSE]
    ELSE [ret |-> 0, registered |-> TRUE]

st_hw_reset == [sleep_out |-> FALSE, display_on |-> FALSE]

st_hw_command(hw, s) ==
    CASE s.c = MIPI_DCS_EXIT_SLEEP_MODE -> [hw EXCEPT !.sleep_out = TRUE]
      [] s.c = MIPI_DCS_SET_DISPLAY_ON  -> [hw EXCEPT !.display_on = TRUE]
      [] OTHER -> hw

StIdle == st_run.pc \in {"none", "done"}

st7789v_probe ==
    /\ StIdle /\ ~st.bound /\ ~st.unplugged
    /\ \E in \in StProbeInputs :
         LET r == st7789v_probe_path(in) IN
         /\ st_in' = in
         /\ st_ret' = r.ret
         /\ st' = [st EXCEPT !.probed = TRUE,
                             !.bound = (r.ret = 0),
                             !.registered = r.registered,
                             !.rotation = in.rotation]
    /\ UNCHANGED <<st_run, ili_vars>>

\* drm_dev_unplug marks the device unplugged, then waits until every
\* drm_dev_enter section has been left before it unregisters the device
st7789v_remove ==
    /\ StIdle /\ st.bound /\ ~st.unplugged
    /\ st' = IF st.readers = 0
             THEN [st EXCEPT !.unplugged = TRUE, !.registered = FALSE,
                             !.bound = FALSE, !.enabled = FALSE]
             ELSE [st EXCEPT !.unplugged = TRUE, !.remove_blocked = TRUE]
    /\ UNCHANGED <<st_in, st_ret, st_run, ili_vars>>

\* st7789v_pipe_enable up to drm_dev_enter
st7789v_pipe_enable ==
    /\ StIdle /\ st.registered /\ st.enables < MaxEnables
    /\ IF st.unplugged
       THEN /\ st_run' = [pc |-> "done", entered |-> FALSE, exits |-> 0,
                          reset_done |-> FALSE, reset_ret |-> 0, idx |-> 1,
                          log |-> <<>>, flushed |-> FALSE]
            /\ st' = [st EXCEPT !.enables = @ + 1]
       ELSE /\ st_run' = [pc |-> "reset", entered |-> TRUE, exits |-> 0,
                          reset_done |-> FALSE, reset_ret |-> 0, idx |-> 1,
                          log |-> <<>>, flushed |-> FALSE]
            /\ st' = [st EXCEPT !.enables = @ + 1, !.readers = @ + 1]
    /\ UNCHANGED <<st_in, st_ret, ili_vars>>

\* where st7789v_pipe_enable goes after mipi_dbi_poweron_reset returned r
st7789v_after_reset(r) == "init"

\* ret = mipi_dbi_poweron_reset(dbidev); if (ret) drm_dev_exit(idx);
mipi_dbi_poweron_reset ==
    /\ st_run.pc = "reset"
    /\ \E r \in Results :
         /\ st_run' = [st_run EXCEPT !.pc = st7789v_after_reset(r),
                                     !.reset_done = TRUE,
                                     !.reset_ret = r,
                                     !.exits = IF r # 0 THEN @ + 1 ELSE @]
         /\ st' = [st EXCEPT !.readers = IF r # 0 THEN @ - 1 ELSE @,
                             !.hw = IF r = 0 THEN st_hw_reset ELSE @]
    /\ UNCHANGED <<st_in, st_ret, ili_vars>>

\* one statement of the init sequence
st7789v_init_step ==
    /\ st_run.pc = "init"
    /\ LET seq == st7789v_init_seq(st.rotation)
           s == seq[st_run.idx] IN
       /\ st_run' = [st_run EXCEPT !.log = Append(@, s),
                                   !.idx = @ + 1,
                                   !.pc = IF st_run.idx = Len(seq) THEN "flush" ELSE "init"]
       \* a command reaches the controller, or mipi_dbi_command fails
       /\ \/ st' = [st EXCEPT !.hw = IF IsCmd(s) THEN st_hw_command(@, s) ELSE @]
          \/ IsCmd(s) /\ st' = st
    /\ UNCHANGED <<st_in, st_ret, ili_vars>>

\* mipi_dbi_enable_flush(dbidev, crtc_state, plane_state), then the return
mipi_dbi_enable_flush ==
    /\ st_run.pc = "flush"
    /\ st_run' = [st_run EXCEPT !.pc = "done", !.flushed = TRUE]
    /\ st' = [st EXCEPT !.enabled = TRUE]
    /\ UNCHANGED <<st_in, st_ret, ili_vars>>

(***************************************************************************)
(* Initial state and specifications                                        *)
(***************************************************************************)
Init ==
    /\ probe_in = [alloc |-> FALSE, reset |-> 0, backlight |-> 0, spi_init |-> 0]
    /\ ret = 0
    /\ last = "none"
    /\ bound = FALSE
    /\ panel_added = FALSE
    /\ prepared = FALSE
    /\ suspended = FALSE
    /\ op = "idle"
    /\ pc = 1
    /\ log = <<>>
    /\ bus_failed = FALSE
    /\ reset_gpio = 0
    /\ ctrl = ili9806e_hw_reset
    /\ connector = [probed_modes |-> <<>>,
                    display_info |-> [width_mm |-> 0, height_mm |-> 0,
                                      bus_formats |-> <<>>]]
    /\ pre_suspend = ili9806e_hw_reset
    /\ first_op = "none"
    /\ st_in = [alloc |-> 0, reset |-> 0, dc |-> 0, backlight |-> 0, spi_init |-> 0,
                dev_init |-> 0, register |-> 0, rotation |-> 0]
    /\ st_ret = 0
    /\ st = [probed |-> FALSE, bound |-> FALSE, registered |-> FALSE,
             unplugged |-> FALSE, remove_blocked |-> FALSE, rotation |-> 0,
             readers |-> 0, enables |-> 0, enabled |-> FALSE, hw |-> st_hw_reset]
    /\ st_run = [pc |-> "none", entered |-> FALSE, exits |-> 0, reset_done |-> FALSE,
                 reset_ret |-> 0, idx |-> 1, log |-> <<>>, flushed |-> FALSE]

NextIli ==
    \/ ili9806e_probe
    \/ ili9806e_remove
    \/ ili9806e_get_modes
    \/ ili9806e_prepare
    \/ ili9806e_unprepare
    \/ ili9806e_suspend
    \/ ili9806e_resume
    \/ gpiod_set_value
    \/ msleep
    \/ mipi_dbi_command
    \/ Return

NextSt ==
    \/ st7789v_probe
    \/ st7789v_remove
    \/ st7789v_pipe_enable
    \/ mipi_dbi_poweron_reset
    \/ st7789v_init_step
    \/ mipi_dbi_enable_flush

\* the ILI9806E panel driver
SpecIli == Init /\ [][NextIli]_vars

\* the ST7789V driver
SpecSt == Init /\ [][NextSt]_vars

Next == NextIli \/ NextSt

Spec == Init /\ [][Next]_vars
(***************************************************************************)
(* Properties                                                              *)
(***************************************************************************)
IsDcs(e, c) == e.k = "dcs" /\ e.c = c
\* the command bytes of a log, in order
CmdBytes(l) == LET cs == SelectSeq(l, IsCmd) IN [i \in 1..Len(cs) |-> cs[i].c]

\* C1: after ili9806e_probe, the return value is negative when the control
\* block allocation, the reset GPIO, the backlight lookup or the MIPI DBI SPI
\* init failed, and it is 0 when all four succeeded.
C1_ProbeStatus ==
    last = "probe" =>
        LET ok == /\ probe_in.alloc
                  /\ probe_in.reset = 0
                  /\ probe_in.backlight = 0
                  /\ probe_in.spi_init = 0 IN
        /\ ok => ret = 0
        /\ ~ok => ret < 0

\* a probe in which only the last acquisition failed
C1_Witness ==
    /\ last = "probe"
    /\ probe_in.alloc /\ probe_in.reset = 0 /\ probe_in.backlight = 0
    /\ probe_in.spi_init < 0
    /\ ret < 0

\* C2: after st7789v_probe, the return value is negative when any of the
\* seven acquisitions (device allocation, reset GPIO, dc GPIO, backlight,
\* MIPI DBI SPI init, DBI device init, DRM device registration) failed, and
\* it is 0 only when all of them succeeded.
C2_StProbeStatus ==
    st.probed =>
        LET ok == /\ st_in.alloc = 0
                  /\ st_in.reset = 0
                  /\ st_in.dc = 0
                  /\ st_in.backlight = 0
                  /\ st_in.spi_init = 0
                  /\ st_in.dev_init = 0
                  /\ st_in.register = 0 IN
        /\ ~ok => st_ret < 0
        /\ st_ret = 0 => ok

\* C3: a prepare, unprepare, suspend or resume in which a mipi_dbi_command
\* returned an error returns a negative status code.
C3_BusFailurePropagated ==
    (op = "idle" /\ last \in BusOps /\ bus_failed) => ret < 0

\* C4: in every run of ili9806e_prepare the reset line is asserted and then
\* released before the first bus command, it is not touched again (and stays
\* released), every vendor register write comes before EXIT_SLEEP_MODE, and
\* SET_DISPLAY_ON is the last statement, after EXIT_SLEEP_MODE and a delay
\* that follows it.
C4_PrepareOrder ==
    op = "prepare" =>
        LET n == Len(log)
            done == pc > Len(ili9806e_prepare_script)
            cmds == {i \in 1..n : IsCmd(log[i])}
            asserts == {i \in 1..n : log[i] = Gpio(1)}
            releases == {i \in 1..n : log[i] = Gpio(0)}
            delays == {i \in 1..n : log[i].k = "delay"}
            vendors == {i \in 1..n : log[i].k = "vendor"}
            exits == {i \in 1..n : IsDcs(log[i], MIPI_DCS_EXIT_SLEEP_MODE)}
            ons == {i \in 1..n : IsDcs(log[i], MIPI_DCS_SET_DISPLAY_ON)} IN
        /\ \A i \in cmds : \E a \in asserts, r \in releases : a < r /\ r < i
        /\ \A r \in releases :
             /\ reset_gpio = 0
             /\ \A j \in (r + 1)..n : log[j].k # "gpio"
        /\ \A v \in vendors, e \in exits : v < e
        /\ \A d \in ons :
             /\ d = n /\ done
             /\ \E e \in exits, w \in delays : e < w /\ w < d
        /\ done => (vendors # {} /\ exits # {} /\ ons # {})

\* a complete run of prepare that left the display on
C4_Witness ==
    /\ op = "prepare"
    /\ pc > Len(ili9806e_prepare_script)
    /\ ctrl.display_on /\ ctrl.sleep_out

\* C5: ili9806e_unprepare and ili9806e_suspend each send exactly
\* SET_DISPLAY_OFF then ENTER_SLEEP_MODE, the reverse of the EXIT_SLEEP_MODE
\* then SET_DISPLAY_ON that end prepare, and when either has returned the
\* controller is display-off and in sleep mode.
C5_PowerOffReversesPowerOn ==
    (op = "idle" /\ last \in {"unprepare", "suspend"}) =>
        /\ CmdBytes(log) = <<MIPI_DCS_SET_DISPLAY_OFF, MIPI_DCS_ENTER_SLEEP_MODE>>
        /\ LET p == CmdBytes(ili9806e_prepare_script) IN
             /\ p[Len(p) - 1] = MIPI_DCS_EXIT_SLEEP_MODE
             /\ p[Len(p)] = MIPI_DCS_SET_DISPLAY_ON
        /\ ~ctrl.display_on
        /\ ~ctrl.sleep_out

\* C6: the panel is on the DRM panel list exactly while the driver is bound
\* (from a probe that returned 0 to the matching remove); a failed probe
\* leaves it unregistered, and so does remove.
C6_PanelRegistration ==
    /\ panel_added <=> bound
    /\ (last = "probe" /\ ret # 0) => ~panel_added
    /\ last = "remove" => ~panel_added

\* the state after a remove (which follows a successful probe)
C6_Witness ==
    /\ last = "remove"
    /\ ~panel_added /\ ~bound
    /\ probe_in.alloc /\ probe_in.spi_init = 0

\* C7: a call of ili9806e_get_modes either returns 1 and appends exactly one
\* mode to the connector, a copy of the fixed 480x800 mode (clock 30000,
\* htotal 584, vtotal 861, display <= sync start <= sync end <= total in both
\* directions), or returns -ENOMEM and leaves the connector as it was.
C7_GetModes ==
    [][ili9806e_get_modes =>
        LET old == connector.probed_modes
            new == connector'.probed_modes IN
        \/ /\ ret' = 1
           /\ Len(new) = Len(old) + 1
           /\ SubSeq(new, 1, Len(old)) = old
           /\ LET m == new[Len(new)] IN
                /\ [m EXCEPT !.name = ""] = nds040480800_v3_mode
                /\ m.hdisplay = 480 /\ m.vdisplay = 800
                /\ m.clock = 30000 /\ m.htotal = 584 /\ m.vtotal = 861
                /\ m.hdisplay <= m.hsync_start /\ m.hsync_start <= m.hsync_end
                /\ m.hsync_end <= m.htotal
                /\ m.vdisplay <= m.vsync_start /\ m.vsync_start <= m.vsync_end
                /\ m.vsync_end <= m.vtotal
        \/ /\ ret' = -ENOMEM
           /\ connector' = connector]_vars

\* two successful calls have added two modes
C7_Witness ==
    /\ last = "get_modes" /\ ret = 1
    /\ Len(connector.probed_modes) = 2
    /\ connector.probed_modes[2].htotal = 584

\* C8: when ili9806e_resume has returned, the controller is in the sleep and
\* display state it had when the suspend was called; and between handlers the
\* display is on only if the panel is prepared.
C8_SuspendResumeRoundTrip ==
    op = "idle" =>
        /\ last = "resume" =>
             /\ ctrl.sleep_out = pre_suspend.sleep_out
             /\ ctrl.display_on = pre_suspend.display_on
        /\ ctrl.display_on => prepared

\* C9: in a run of st7789v_pipe_enable in which mipi_dbi_poweron_reset
\* returned an error, no init command is sent (so the display is not turned
\* on) and flushing is not enabled.
C9_NoInitAfterFailedReset ==
    (st_run.reset_done /\ st_run.reset_ret # 0) =>
        /\ SelectSeq(st_run.log, IsCmd) = <<>>
        /\ ~st_run.flushed

\* C10: the commands a complete run of st7789v_pipe_enable has sent are the
\* same in every run but for the one parameter of the one SET_ADDRESS_MODE,
\* which is 0x60 for rotation 90, 0xC0 for 180, 0xA0 for 270 and 0 for every
\* other rotation; bit 3 (RGB/BGR) of it is clear.
C10_AddressMode ==
    (st_run.pc = "done" /\ st_run.entered) =>
        LET cmds == SelectSeq(st_run.log, IsCmd)
            am == {i \in 1..Len(cmds) : cmds[i].c = MIPI_DCS_SET_ADDRESS_MODE}
            expected == CASE st.rotation = 90  -> 96
                          [] st.rotation = 180 -> 192
                          [] st.rotation = 270 -> 160
                          [] OTHER -> 0 IN
        /\ Cardinality(am) = 1
        /\ \A i \in am :
             /\ cmds[i].p = <<expected>>
             /\ (cmds[i].p[1] \div 8) % 2 = 0
             /\ [cmds EXCEPT ![i].p = <<0>>] = SelectSeq(st7789v_init_seq(0), IsCmd)

\* a complete run on a device rotated by 270 degrees
C10_Witness ==
    /\ st_run.pc = "done" /\ st_run.entered
    /\ st.rotation = 270
    /\ Len(st_run.log) = Len(st7789v_init_seq(270))

\* C11: when a run of st7789v_pipe_enable has returned, a successful
\* drm_dev_enter has been matched by exactly one drm_dev_exit, and a run
\* whose drm_dev_enter failed (device unplugged) has sent no bus command.
C11_EnterExitBalanced ==
    st_run.pc = "done" =>
        /\ st_run.entered => st_run.exits = 1
        /\ ~st_run.entered => (st_run.exits = 0 /\ SelectSeq(st_run.log, IsCmd) = <<>>)

\* the page the vendor register written by statement i of ili9806e_prepare
\* belongs to (-1: statement i writes no vendor register)
RegisterPage(i) ==
    LET n1 == Len(ili9806e_page1_init)
        n6 == Len(ili9806e_page6_init)
        n7 == Len(ili9806e_page7_init) IN
    CASE i \in 6..(5 + n1)                       -> 1
      [] i \in (7 + n1)..(6 + n1 + n6)           -> 6
      [] i \in (8 + n1 + n6)..(7 + n1 + n6 + n7) -> 7
      [] OTHER -> -1

\* C12: every vendor register write of ili9806e_prepare is sent while the
\* controller is on the register's page (1, 6 or 7), and once the first bus
\* handler after probe was prepare, every DCS command of prepare, unprepare,
\* suspend and resume is sent while the controller is on page 0.
C12_CommandsOnTheirPage ==
    Running =>
        /\ (op = "prepare" /\ Script(op)[pc].k = "vendor") =>
               ctrl.page = RegisterPage(pc)
        /\ (first_op = "prepare" /\ Script(op)[pc].k = "dcs") =>
               ctrl.page = 0
====
